---- MODULE Spec2Model ----
(***************************************************************************)
(* Model of the summary-to-Parquet conversion scripts.                     *)
(*                                                                         *)
(*   Spec      concat_parquet.py: glob the per-realization files, tag each *)
(*             table with its realization index, concatenate, write.       *)
(*   SpecConv  smry2parquet.py and smry2parquet_via_dframe.py: load one    *)
(*             summary file into a table and write it.                     *)
(*                                                                         *)
(* The pyarrow calls the scripts make (add_column, concat_tables with      *)
(* promote=True, pa.table, write_table, write_feather) are modelled by     *)
(* what pyarrow does for the arguments the scripts pass.                   *)
(***************************************************************************)
EXTENDS Integers, Sequences, FiniteSets, TLC

\* ------------------------------------------------------------------ bounds
MaxFiles == 2       \* files in ./output matched by the glob
MaxRows == 2        \* rows of one input table / timestamps of one summary
MaxKeys == 3        \* entries of the vector enumeration of one summary

\* ------------------------------------------------------------- small helpers
Range(s) == {s[i] : i \in 1..Len(s)}

RECURSIVE SumSeq(_)
SumSeq(s) == IF s = <<>> THEN 0 ELSE Head(s) + SumSeq(Tail(s))

RECURSIVE Flatten(_)
Flatten(ss) == IF ss = <<>> THEN <<>> ELSE Head(ss) \o Flatten(Tail(ss))

\* A cell of a column: <<v>> is the value v, <<>> is null.
NullCell == <<>>
Nulls(n) == [k \in 1..n |-> NullCell]

\* -------------------------------------------------------------- the tables
\* A field is [name, type, metadata]; metadata is <<>> (None) or <<blob>>,
\* the value stored under the b"smry_meta" key.  A schema is [fields,
\* metadata] with the same convention for the table-level metadata, whose
\* blob is a function from column names to metadata records.  A table is
\* [schema, columns], columns[j] the cells of field j.
Field(name, type, metadata) == [name |-> name, type |-> type, metadata |-> metadata]

names(schema) == [j \in 1..Len(schema.fields) |-> schema.fields[j].name]

num_rows(table) == IF Len(table.columns) = 0 THEN 0 ELSE Len(table.columns[1])

\* Index of the first field called name, 0 when there is none.
IndexOfName(fields, name) ==
    LET I == {i \in 1..Len(fields) : fields[i].name = name}
    IN IF I = {} THEN 0 ELSE CHOOSE i \in I : \A k \in I : i <= k

CountName(fields, name) == Cardinality({i \in 1..Len(fields) : fields[i].name = name})

HasDistinctFieldNames(fields) ==
    \A i, k \in 1..Len(fields) : fields[i].name = fields[k].name => i = k

\* Metadata records as the summary reader reports them (get_num is optional).
MetaA == [unit |-> "SM3/DAY", is_total |-> FALSE, is_rate |-> TRUE,
          is_historical |-> FALSE, keyword |-> "FOPR", wgname |-> ""]
MetaB == [unit |-> "SM3", is_total |-> TRUE, is_rate |-> FALSE,
          is_historical |-> TRUE, keyword |-> "FOPT", wgname |-> "OP_1",
          get_num |-> 7]

\* ------------------------------------------------------------ pyarrow calls
\* table.add_column(i, name, pa.array(np.full(table.num_rows, value))): a new
\* table with an int64 column inserted at 0-based position i.  pyarrow does
\* not look at the names already present.
add_column(table, i, name, value) ==
    LET fs == table.schema.fields
        cs == table.columns
        n == num_rows(table)
    IN [schema |-> [fields |-> SubSeq(fs, 1, i) \o <<Field(name, "int64", <<>>)>>
                                  \o SubSeq(fs, i + 1, Len(fs)),
                    metadata |-> table.schema.metadata],
        columns |-> SubSeq(cs, 1, i) \o <<[k \in 1..n |-> <<value>>]>>
                        \o SubSeq(cs, i + 1, Len(cs))]

\* Field::MergeWith under the default merge options (null promotion only):
\* equal types keep the first field with its metadata, a null-typed field
\* gives way to the other one, anything else cannot be merged.
MergeWith(f, g) ==
    IF f.type = g.type THEN [ok |-> TRUE, field |-> f]
    ELSE IF f.type = "null" THEN [ok |-> TRUE, field |-> g]
    ELSE IF g.type = "null" THEN [ok |-> TRUE, field |-> f]
    ELSE [ok |-> FALSE, field |-> f]

\* SchemaBuilder::AddField with the merge policy.
AddField(b, g) ==
    IF ~b.ok THEN b
    ELSE LET i == IndexOfName(b.fields, g.name)
         IN IF i = 0 THEN [b EXCEPT !.fields = Append(b.fields, g)]
            ELSE LET m == MergeWith(b.fields[i], g)
                 IN IF m.ok THEN [b EXCEPT !.fields[i] = m.field]
                    ELSE [b EXCEPT !.ok = FALSE]

RECURSIVE AddSchema(_, _)
AddSchema(b, fields) ==
    IF fields = <<>> THEN b ELSE AddSchema(AddField(b, Head(fields)), Tail(fields))

RECURSIVE AddSchemas(_, _)
AddSchemas(b, schemas) ==
    IF schemas = <<>> THEN b
    ELSE AddSchemas(AddSchema(b, Head(schemas).fields), Tail(schemas))

\* pa.unify_schemas: the union of the fields in first-seen order, the
\* table-level metadata of the first schema; fails on a schema with duplicate
\* field names and on fields that cannot be merged.
UnifySchemas(schemas) ==
    IF \E i \in 1..Len(schemas) : ~HasDistinctFieldNames(schemas[i].fields)
    THEN [ok |-> FALSE, schema |-> schemas[1]]
    ELSE LET b == AddSchemas([ok |-> TRUE, fields |-> <<>>], schemas)
         IN [ok |-> b.ok,
             schema |-> [fields |-> b.fields, metadata |-> schemas[1].metadata]]

\* PromoteTableToSchema: the table's columns laid out as the unified schema
\* asks; a column the table lacks, or holds with the null type, is a column
\* of nulls of the table's length.  A column of another type than the
\* schema's cannot be promoted.
CanPromote(table, schema) ==
    \A i \in 1..Len(table.schema.fields) :
        LET f == table.schema.fields[i]
            j == IndexOfName(schema.fields, f.name)
        IN j # 0 /\ (f.type = schema.fields[j].type \/ f.type = "null")

PromoteTableToSchema_ZeroFill(table, schema) ==
    [schema |-> schema,
     columns |-> [j \in 1..Len(schema.fields) |->
        LET i == IndexOfName(table.schema.fields, schema.fields[j].name)
        IN IF i # 0 /\ table.schema.fields[i].type = schema.fields[j].type
           THEN table.columns[i]
           ELSE [k \in 1..num_rows(table) |-> <<0>>]]]

PromoteTableToSchema(table, schema) ==
    [schema |-> schema,
     columns |-> [j \in 1..Len(schema.fields) |->
        LET i == IndexOfName(table.schema.fields, schema.fields[j].name)
        IN IF i # 0 /\ table.schema.fields[i].type = schema.fields[j].type
           THEN table.columns[i]
           ELSE Nulls(num_rows(table))]]

ConcatColumn_Reversed(promoted, j) ==
    Flatten([t \in 1..Len(promoted) |-> promoted[Len(promoted) + 1 - t].columns[j]])

\* The chunks of column j, one per promoted table, in the order of the tables.
ConcatColumn(promoted, j) ==
    Flatten([t \in 1..Len(promoted) |-> promoted[t].columns[j]])

EmptyTable == [schema |-> [fields |-> <<>>, metadata |-> <<>>], columns |-> <<>>]

concat_tables_Unchecked(tables) ==
    IF Len(tables) = 0 THEN [err |-> "ArrowInvalid", table |-> EmptyTable]
    ELSE LET u == UnifySchemas([t \in 1..Len(tables) |-> tables[t].schema])
             promoted == [t \in 1..Len(tables) |->
                             PromoteTableToSchema(tables[t], u.schema)]
         IN [err |-> "",
             table |-> [schema |-> u.schema,
                        columns |-> [j \in 1..Len(u.schema.fields) |->
                                        ConcatColumn(promoted, j)]]]

\* pa.concat_tables(tables, promote=True).  The outcome is [err, table]; err
\* is "" on success and the name of the exception pyarrow raises otherwise.
concat_tables(tables) ==
    IF Len(tables) = 0 THEN [err |-> "ArrowInvalid", table |-> EmptyTable]
    ELSE LET u == UnifySchemas([t \in 1..Len(tables) |-> tables[t].schema])
             promoted == [t \in 1..Len(tables) |->
                             PromoteTableToSchema(tables[t], u.schema)]
         IN IF ~u.ok \/ \E t \in 1..Len(tables) : ~CanPromote(tables[t], u.schema)
            THEN [err |-> "ArrowInvalid", table |-> EmptyTable]
            ELSE [err |-> "",
                  table |-> [schema |-> u.schema,
                             columns |-> [j \in 1..Len(u.schema.fields) |->
                                             ConcatColumn(promoted, j)]]]

\* ------------------------------------------------- paths and realizations
\* A path of the glob "./output/summary_r*.parquet" is modelled by the part
\* the star matches, a sequence of characters.
FileStemSeq == << <<"0">>, <<"0", "1">>, <<"1", "0">>, <<"1", "x">>, <<"x">> >>
FileStems == Range(FileStemSeq)
FileId(stem) == CHOOSE i \in 1..Len(FileStemSeq) : FileStemSeq[i] = stem

Digits == <<"0", "1", "2", "3", "4", "5", "6", "7", "8", "9">>
IsDigit(c) == c \in Range(Digits)
DigitVal(c) == (CHOOSE i \in 1..Len(Digits) : Digits[i] = c) - 1

\* Code points, for the string order sorted() uses.
CodePoint(c) == IF c = "." THEN 46 ELSE IF IsDigit(c) THEN 48 + DigitVal(c) ELSE 120

\* a < b as Python compares the two file names; the stems are followed by
\* ".parquet" in both.
RECURSIVE StrLess(_, _)
StrLess(a, b) ==
    IF a = <<>> THEN b # <<>>
    ELSE IF b = <<>> THEN FALSE
    ELSE IF Head(a) = Head(b) THEN StrLess(Tail(a), Tail(b))
    ELSE CodePoint(Head(a)) < CodePoint(Head(b))

PathLess(a, b) == StrLess(a \o <<".">>, b \o <<".">>)

\* sorted(list({...})) of the globbed paths.
RECURSIVE SortedPaths(_)
SortedPaths(S) ==
    IF S = {} THEN <<>>
    ELSE LET m == CHOOSE x \in S : \A y \in S \ {x} : PathLess(x, y)
         IN <<m>> \o SortedPaths(S \ {m})

\* The group (\d+) of re.match(r"summary_r(\d+)", path_comp): the longest run
\* of digits that starts the stem; <<>> when the regular expression fails.
RECURSIVE LeadingDigits(_)
LeadingDigits(stem) ==
    IF stem = <<>> \/ ~IsDigit(Head(stem)) THEN <<>>
    ELSE <<Head(stem)>> \o LeadingDigits(Tail(stem))

\* int(realmatch.group(1))
RECURSIVE ParseInt(_)
ParseInt(ds) ==
    IF ds = <<>> THEN 0
    ELSE ParseInt(SubSeq(ds, 1, Len(ds) - 1)) * 10 + DigitVal(ds[Len(ds)])

FileEntry(real, filename) == [real |-> real, filename |-> filename]

\* sorted(files_to_process, key=lambda e: e.real): a stable sort.
InsertByReal(sorted, e) ==
    LET n == Cardinality({i \in 1..Len(sorted) : sorted[i].real <= e.real})
    IN SubSeq(sorted, 1, n) \o <<e>> \o SubSeq(sorted, n + 1, Len(sorted))

SortedByReal_Unsorted(entries) == entries

RECURSIVE SortedByReal(_)
SortedByReal(entries) ==
    IF entries = <<>> THEN <<>>
    ELSE InsertByReal(SortedByReal(SubSeq(entries, 1, Len(entries) - 1)),
                      entries[Len(entries)])

\* ------------------------------------------------------ the input tables
\* What one ./output/summary_r*.parquet file may hold.  The schemas are those
\* the conversion scripts write (32-bit float vectors, with or without the
\* table-level blob) and those other writers of such files produce: a vector
\* stored as double, and a vector without a single value, of the null type.
DateField == Field("DATE", "timestamp[ms]", <<>>)

InputSchemas == <<
    [fields |-> <<DateField, Field("FOPR", "float", <<MetaA>>)>>,
     metadata |-> <<("FOPR" :> MetaA)>>],
    [fields |-> <<DateField, Field("FOPR", "float", <<MetaB>>),
                  Field("FGPR", "float", <<MetaA>>)>>,
     metadata |-> <<("FOPR" :> MetaB) @@ ("FGPR" :> MetaA)>>],
    [fields |-> <<DateField, Field("FOPR", "double", <<MetaA>>)>>,
     metadata |-> <<("FOPR" :> MetaA)>>],
    [fields |-> <<DateField, Field("FOPR", "null", <<>>)>>,
     metadata |-> <<>>],
    [fields |-> <<DateField, Field("FGPR", "float", <<MetaA>>)>>,
     metadata |-> <<>>] >>

ColumnIds == <<"DATE", "FOPR", "FGPR">>
ColumnId(name) == CHOOSE i \in 1..Len(ColumnIds) : ColumnIds[i] = name

\* The value in row k of the column called name of the file fid: distinct
\* for distinct files, columns and rows.
CellValue(fid, name, k) == (fid * 10 + ColumnId(name)) * 10 + k

InputTable(schema, fid, rows) ==
    [schema |-> schema,
     columns |-> [j \in 1..Len(schema.fields) |-> [k \in 1..rows |->
        IF schema.fields[j].type = "null" THEN NullCell
        ELSE <<CellValue(fid, schema.fields[j].name, k)>>]]]

\* lines 56-69: the table of one realization, its REAL column added.
read_and_build_table_for_one_real(entry, table) ==
    add_column(table, 1, "REAL", entry.real)

\* The tables read_table may return for an entry; the last ones are files
\* that hold an already tagged table of that realization.
FileContents(entry) ==
    {InputTable(InputSchemas[p], FileId(entry.filename), n) :
        p \in 1..Len(InputSchemas), n \in 0..MaxRows}
    \cup {read_and_build_table_for_one_real(entry,
              InputTable(InputSchemas[1], FileId(entry.filename), n)) :
          n \in 0..MaxRows}

\* A file of the output directory: absent, or holding a table.
Absent == [state |-> "absent", table |-> EmptyTable]
Written(table) == [state |-> "complete", table |-> table]

\* ---------------------------------------------------- the summary reader
\* What EclSum yields for one summary file: keywords is the enumeration
\* EclSumKeyWordVector(eclsum, add_keywords=True), which may list a name more
\* than once; ntimes is len(eclsum.numpy_dates); veclen[n] is the length of
\* eclsum.numpy_vector(n); node[n] is eclsum.smspec_node(n) with the unit and
\* the flags; beyond2262 says whether a timestamp lies after the year 2262.
VectorNames == {"FOPR", "FGPR"}

NodeA == [unit |-> "SM3/DAY", is_total |-> FALSE, is_rate |-> TRUE,
          is_historical |-> FALSE, keyword |-> "FOPR", wgname |-> "", num |-> <<>>]
NodeB == [unit |-> "SM3", is_total |-> TRUE, is_rate |-> FALSE,
          is_historical |-> TRUE, keyword |-> "FOPT", wgname |-> "OP_1",
          num |-> <<7>>]
Nodes == {NodeA, NodeB}

RECURSIVE SeqsUpTo(_, _)
SeqsUpTo(S, n) ==
    IF n = 0 THEN {<<>>}
    ELSE SeqsUpTo(S, n - 1) \cup
         {Append(q, x) : q \in {r \in SeqsUpTo(S, n - 1) : Len(r) = n - 1}, x \in S}

Summaries ==
    [keywords : SeqsUpTo(VectorNames, MaxKeys),
     ntimes : 0..MaxRows,
     veclen : [VectorNames -> 0..MaxRows],
     node : [VectorNames -> Nodes],
     beyond2262 : BOOLEAN]

NoSummary == [keywords |-> <<>>, ntimes |-> 0, veclen |-> [n \in VectorNames |-> 0],
              node |-> [n \in VectorNames |-> NodeA], beyond2262 |-> FALSE]

\* Timestamp k of a summary in milliseconds, and sample k of a vector as the
\* 64-bit value the reader returns: its last decimal digit is beyond what a
\* 32-bit float holds.
DateMs(k) == k
SampleValue(name, k) == (ColumnId(name) * 10 + k) * 10 + 7

numpy_dates(eclsum) == [k \in 1..eclsum.ntimes |-> <<DateMs(k)>>]
numpy_vector(eclsum, name) ==
    [k \in 1..eclsum.veclen[name] |-> <<SampleValue(name, k)>>]

\* The value a 64-bit sample has once stored as a 32-bit float.
Float32(v) == (v \div 10) * 10

NsPerMs == 1000 * 1000

\* One cell converted from the type from to the type to.
CastCell(cell, from, to) ==
    IF cell = NullCell THEN NullCell
    ELSE IF from = "double" /\ to = "float" THEN <<Float32(cell[1])>>
    ELSE IF from = "timestamp[ns]" /\ to = "timestamp[ms]" THEN <<cell[1] \div NsPerMs>>
    ELSE cell

CastColumn(cells, from, to) == [k \in 1..Len(cells) |-> CastCell(cells[k], from, to)]

\* _create_smry_meta_dict, one col_meta: get_num is set only when the node
\* has a number.
col_meta(node) ==
    IF node.num = <<>>
    THEN [unit |-> node.unit, is_total |-> node.is_total, is_rate |-> node.is_rate,
          is_historical |-> node.is_historical, keyword |-> node.keyword,
          wgname |-> node.wgname]
    ELSE [unit |-> node.unit, is_total |-> node.is_total, is_rate |-> node.is_rate,
          is_historical |-> node.is_historical, keyword |-> node.keyword,
          wgname |-> node.wgname, get_num |-> node.num[1]]

\* _create_smry_meta_dict(eclsum, column_names), the same in both scripts.
\* A blob, json.dumps of a dict, is modelled by the JSON value it encodes.
create_smry_meta_dict(eclsum, column_names) ==
    [n \in column_names |-> col_meta(eclsum.node[n])]

\* The orders in which a set can be iterated.
Orders(S) == {q \in SeqsUpTo(S, Cardinality(S)) :
                 Len(q) = Cardinality(S) /\ Range(q) = S}

\* ----------------------------------------- smry2parquet.py, lines 42-90
\* lines 70-76: the schema, fields in the iteration order of the name set
direct_schema(smry_meta_dict, order) ==
    [fields |-> <<Field("DATE", "timestamp[ms]", <<>>)>> \o
                [j \in 1..Len(order) |->
                    Field(order[j], "float", <<smry_meta_dict[order[j]]>>)],
     metadata |-> <<>>]

direct_column_arrays_Reversed(eclsum, order) ==
    <<numpy_dates(eclsum)>> \o
    [j \in 1..Len(order) |-> numpy_vector(eclsum, order[Len(order) + 1 - j])]

\* lines 82-86: the arrays, in the iteration order of the name set
direct_column_arrays(eclsum, order) ==
    <<numpy_dates(eclsum)>> \o [j \in 1..Len(order) |-> numpy_vector(eclsum, order[j])]

pa_table_Unvalidated(column_arrays, schema) ==
    [err |-> "",
     table |-> [schema |-> schema,
                columns |-> [j \in 1..Len(column_arrays) |->
                    CastColumn(column_arrays[j],
                               IF j = 1 THEN "timestamp[ms]" ELSE "double",
                               schema.fields[j].type)]]]

\* line 88, pa.table(column_arrays, schema=schema): each numpy array is
\* converted to the type of its field (the dates are datetime64[ms], the
\* vectors float64), and the table is validated: columns of different
\* lengths raise ArrowInvalid.
pa_table(column_arrays, schema) ==
    IF \E j \in 1..Len(column_arrays) : Len(column_arrays[j]) # Len(column_arrays[1])
    THEN [err |-> "ArrowInvalid", table |-> EmptyTable]
    ELSE [err |-> "",
          table |-> [schema |-> schema,
                     columns |-> [j \in 1..Len(column_arrays) |->
                         CastColumn(column_arrays[j],
                                    IF j = 1 THEN "timestamp[ms]" ELSE "double",
                                    schema.fields[j].type)]]]

\* _load_smry_into_table of smry2parquet.py, the name set iterated in order.
load_smry_into_table_direct(eclsum, order) ==
    LET column_names == Range(eclsum.keywords)
        smry_meta_dict == create_smry_meta_dict(eclsum, column_names)
    IN pa_table(direct_column_arrays(eclsum, order),
                direct_schema(smry_meta_dict, order))

\* --------------------------- smry2parquet_via_dframe.py, lines 19-138
\* A data frame is [names, types, columns].  eclsum.pandas_frame() followed
\* by lines 105-106: one float64 column per entry of the enumeration, all of
\* ntimes rows, after the index turned into the first column, DATE, of type
\* datetime64[ns].
pandas_frame_reset_index(eclsum) ==
    [names |-> <<"DATE">> \o eclsum.keywords,
     types |-> <<"timestamp[ns]">> \o [j \in 1..Len(eclsum.keywords) |-> "double"],
     columns |-> <<[k \in 1..eclsum.ntimes |-> <<DateMs(k) * NsPerMs>>]>> \o
                 [j \in 1..Len(eclsum.keywords) |->
                     [k \in 1..eclsum.ntimes |-> <<SampleValue(eclsum.keywords[j], k)>>]]]

\* line 108, pa.Schema.from_pandas(df, preserve_index=False)
schema_from_pandas(df) ==
    [fields |-> [j \in 1..Len(df.names) |-> Field(df.names[j], df.types[j], <<>>)],
     metadata |-> <<>>]

\* lines 19-29
set_date_column_type_to_timestamp_ms(schema) ==
    LET indexof_date_field == IndexOfName(schema.fields, "DATE")
    IN [fields |-> [j \in 1..Len(schema.fields) |->
                       Field(schema.fields[j].name,
                             IF j = indexof_date_field THEN "timestamp[ms]"
                             ELSE schema.fields[j].type,
                             <<>>)],
        metadata |-> <<>>]

create_float_downcasting_schema_Keep(schema) ==
    [fields |-> [j \in 1..Len(schema.fields) |->
                    Field(schema.fields[j].name, schema.fields[j].type, <<>>)],
     metadata |-> <<>>]

\* lines 33-44
create_float_downcasting_schema(schema) ==
    [fields |-> [j \in 1..Len(schema.fields) |->
                    Field(schema.fields[j].name,
                          IF schema.fields[j].type = "double" THEN "float"
                          ELSE schema.fields[j].type,
                          <<>>)],
     metadata |-> <<>>]

\* lines 48-60
set_metadata_per_field(schema, smry_meta_dict) ==
    [fields |-> [j \in 1..Len(schema.fields) |->
                    IF schema.fields[j].name \in DOMAIN smry_meta_dict
                    THEN Field(schema.fields[j].name, schema.fields[j].type,
                               <<smry_meta_dict[schema.fields[j].name]>>)
                    ELSE schema.fields[j]],
     metadata |-> schema.metadata]

\* line 122, pa.Table.from_pandas(df, schema=schema, preserve_index=False)
table_from_pandas(df, schema) ==
    [schema |-> schema,
     columns |-> [j \in 1..Len(schema.fields) |->
                     CastColumn(df.columns[j], df.types[j], schema.fields[j].type)]]

\* line 130
replace_schema_metadata(t, metadata) ==
    [schema |-> [fields |-> t.schema.fields, metadata |-> metadata],
     columns |-> t.columns]

\* _load_smry_into_table of smry2parquet_via_dframe.py.  pandas_frame()
\* raises on timestamps after 2262 (the comment of lines 92-93), and
\* Schema.from_pandas raises ValueError on duplicate column names.
load_smry_into_table_dframe(eclsum) ==
    LET df == pandas_frame_reset_index(eclsum)
        schema1 == create_float_downcasting_schema(
                      set_date_column_type_to_timestamp_ms(schema_from_pandas(df)))
        column_names == Range(names(schema1)) \ {"DATE"}
        smry_meta_dict == create_smry_meta_dict(eclsum, column_names)
        schema2 == set_metadata_per_field(schema1, smry_meta_dict)
    IN IF eclsum.beyond2262
       THEN [err |-> "OutOfBoundsDatetime", table |-> EmptyTable]
       ELSE IF ~HasDistinctFieldNames(schema_from_pandas(df).fields)
       THEN [err |-> "ValueError", table |-> EmptyTable]
       ELSE [err |-> "",
             table |-> replace_schema_metadata(table_from_pandas(df, schema2),
                                               <<smry_meta_dict>>)]

\* parquet_filename and Path(parquet_filename).with_suffix(".arrow")
ConvFileNames == {"parquet", "arrow"}

\* ---------------------------------------------------------------- state
VARIABLES
    dir,               \* the stems of the files ./output holds at the start
    globbedpaths,      \* line 31
    files_to_process,  \* lines 39-50
    idx,               \* position of the running for loop
    table_list,        \* line 74
    combined_table,    \* line 107
    output,            \* concat.parquet and concat.arrow
    pc,                \* the statement the script is at
    err,               \* the exception that ended the script, "" if none
    concat_args        \* the arguments of the concat_tables calls so far

concatVars == <<dir, globbedpaths, files_to_process, idx, table_list,
                combined_table, output, pc, err, concat_args>>

\* smry2parquet.py / smry2parquet_via_dframe.py, one run of smry2parquet()
VARIABLES
    variant,              \* "direct" (smry2parquet.py) or "dframe"
    smry,                 \* what the summary reader yields for smry_filename
    write_extra_feather,  \* the argument of smry2parquet()
    table,                \* the table _load_smry_into_table returned
    files,                \* parquet_filename and its .arrow sibling
    cpc,                  \* the statement smry2parquet() is at
    cerr                  \* the exception that ended it, "" if none

convVars == <<variant, smry, write_extra_feather, table, files, cpc, cerr>>

vars == <<concatVars, convVars>>

OutputNames == {"concat.parquet", "concat.arrow"}

\* The state of a script that is not run.
ConcatIdle ==
    /\ dir = {}
    /\ globbedpaths = <<>>
    /\ files_to_process = <<>>
    /\ idx = 1
    /\ table_list = <<>>
    /\ combined_table = EmptyTable
    /\ output = [f \in OutputNames |-> Absent]
    /\ pc = "idle"
    /\ err = ""
    /\ concat_args = <<>>

ConvIdle ==
    /\ variant = "direct"
    /\ smry = NoSummary
    /\ write_extra_feather = FALSE
    /\ table = EmptyTable
    /\ files = [f \in ConvFileNames |-> Absent]
    /\ cpc = "idle"
    /\ cerr = ""

Init ==
    /\ ConvIdle
    /\ dir \in {S \in SUBSET FileStems : Cardinality(S) <= MaxFiles}
    /\ globbedpaths = <<>>
    /\ files_to_process = <<>>
    /\ idx = 1
    /\ table_list = <<>>
    /\ combined_table = EmptyTable
    /\ output = [f \in OutputNames |-> Absent]
    /\ pc = "glob"
    /\ err = ""
    /\ concat_args = <<>>

\* lines 30-31
Glob ==
    /\ pc = "glob"
    /\ globbedpaths' = SortedPaths(dir)
    /\ idx' = 1
    /\ pc' = "scan"
    /\ UNCHANGED convVars
    /\ UNCHANGED <<dir, files_to_process, table_list, combined_table, output,
                   err, concat_args>>

\* lines 41-48, one path: of the components of the path only the file name
\* can match, "." and "output" do not.
ScanPath ==
    /\ pc = "scan"
    /\ idx <= Len(globbedpaths)
    /\ LET path == globbedpaths[idx]
           group1 == LeadingDigits(path)
       IN files_to_process' =
            IF group1 # <<>>
            THEN Append(files_to_process, FileEntry(ParseInt(group1), path))
            ELSE files_to_process
    /\ idx' = idx + 1
    /\ UNCHANGED convVars
    /\ UNCHANGED <<dir, globbedpaths, table_list, combined_table, output, pc,
                   err, concat_args>>

\* line 50
SortEntries ==
    /\ pc = "scan"
    /\ idx > Len(globbedpaths)
    /\ files_to_process' = SortedByReal(files_to_process)
    /\ idx' = 1
    /\ pc' = "read"
    /\ UNCHANGED convVars
    /\ UNCHANGED <<dir, globbedpaths, table_list, combined_table, output, err,
                   concat_args>>

\* lines 77-79, one entry
ReadOne ==
    /\ pc = "read"
    /\ idx <= Len(files_to_process)
    /\ \E t \in FileContents(files_to_process[idx]) :
          table_list' = Append(table_list,
              read_and_build_table_for_one_real(files_to_process[idx], t))
    /\ idx' = idx + 1
    /\ UNCHANGED convVars
    /\ UNCHANGED <<dir, globbedpaths, files_to_process, combined_table, output,
                   pc, err, concat_args>>

\* lines 60-62: read_table raises, the script ends
ReadFail ==
    /\ pc = "read"
    /\ idx <= Len(files_to_process)
    /\ pc' = "failed"
    /\ err' = "OSError"
    /\ UNCHANGED convVars
    /\ UNCHANGED <<dir, globbedpaths, files_to_process, idx, table_list,
                   combined_table, output, concat_args>>

\* line 107, reached when the loop of lines 77-79 is over
Concat ==
    /\ pc = "read"
    /\ idx > Len(files_to_process)
    /\ concat_args' = Append(concat_args, table_list)
    /\ LET r == concat_tables(table_list)
       IN IF r.err = ""
          THEN /\ combined_table' = r.table
               /\ pc' = "write_parquet"
               /\ err' = err
          ELSE /\ combined_table' = combined_table
               /\ pc' = "failed"
               /\ err' = r.err
    /\ UNCHANGED convVars
    /\ UNCHANGED <<dir, globbedpaths, files_to_process, idx, table_list, output>>

\* line 115
WriteParquet ==
    /\ pc = "write_parquet"
    /\ output' = [output EXCEPT !["concat.parquet"] = Written(combined_table)]
    /\ pc' = "write_feather"
    /\ UNCHANGED convVars
    /\ UNCHANGED <<dir, globbedpaths, files_to_process, idx, table_list,
                   combined_table, err, concat_args>>

\* line 115 raises: write_table removes what it wrote of the file
WriteParquetFail ==
    /\ pc = "write_parquet"
    /\ output' = [output EXCEPT !["concat.parquet"] = Absent]
    /\ pc' = "failed"
    /\ err' = "OSError"
    /\ UNCHANGED convVars
    /\ UNCHANGED <<dir, globbedpaths, files_to_process, idx, table_list,
                   combined_table, concat_args>>

\* line 121
WriteFeather ==
    /\ pc = "write_feather"
    /\ output' = [output EXCEPT !["concat.arrow"] = Written(combined_table)]
    /\ pc' = "done"
    /\ UNCHANGED convVars
    /\ UNCHANGED <<dir, globbedpaths, files_to_process, idx, table_list,
                   combined_table, err, concat_args>>

\* line 121 raises: write_feather removes what it wrote of the file
WriteFeatherFail ==
    /\ pc = "write_feather"
    /\ output' = [output EXCEPT !["concat.arrow"] = Absent]
    /\ pc' = "failed"
    /\ err' = "OSError"
    /\ UNCHANGED convVars
    /\ UNCHANGED <<dir, globbedpaths, files_to_process, idx, table_list,
                   combined_table, concat_args>>

Next ==
    \/ Glob
    \/ ScanPath
    \/ SortEntries
    \/ ReadOne
    \/ ReadFail
    \/ Concat
    \/ WriteParquet
    \/ WriteParquetFail
    \/ WriteFeather
    \/ WriteFeatherFail

Spec == Init /\ [][Next]_vars

\* ================================== smry2parquet(), lines 94-113 / 142-161
InitConv ==
    /\ ConcatIdle
    /\ variant \in {"direct", "dframe"}
    /\ smry \in Summaries
    \* the data frame of the dframe script is one matrix of ntimes rows
    /\ variant = "dframe" => \A n \in VectorNames : smry.veclen[n] = smry.ntimes
    /\ write_extra_feather \in BOOLEAN
    /\ table = EmptyTable
    /\ files = [f \in ConvFileNames |-> Absent]
    /\ cpc = "load"
    /\ cerr = ""

\* After line 97 / 145: on with the table, or out with the exception.
Loaded(r) ==
    IF r.err = ""
    THEN /\ table' = r.table
         /\ cpc' = "write_parquet"
         /\ cerr' = cerr
    ELSE /\ table' = table
         /\ cpc' = "failed"
         /\ cerr' = r.err

\* smry2parquet.py line 97
LoadDirect ==
    /\ cpc = "load"
    /\ variant = "direct"
    /\ \E order \in Orders(Range(smry.keywords)) :
          Loaded(load_smry_into_table_direct(smry, order))
    /\ UNCHANGED <<variant, smry, write_extra_feather, files>>
    /\ UNCHANGED concatVars

\* smry2parquet_via_dframe.py line 145
LoadDframe ==
    /\ cpc = "load"
    /\ variant = "dframe"
    /\ Loaded(load_smry_into_table_dframe(smry))
    /\ UNCHANGED <<variant, smry, write_extra_feather, files>>
    /\ UNCHANGED concatVars

\* EclSum(smry_filename) raises: the file cannot be read
LoadFail ==
    /\ cpc = "load"
    /\ cpc' = "failed"
    /\ cerr' = "IOError"
    /\ UNCHANGED <<variant, smry, write_extra_feather, table, files>>
    /\ UNCHANGED concatVars

\* line 102 / 150
ConvWriteParquet ==
    /\ cpc = "write_parquet"
    /\ files' = [files EXCEPT !["parquet"] = Written(table)]
    /\ cpc' = IF variant = "dframe" THEN "write_parquet_zstd" ELSE "feather"
    /\ UNCHANGED <<variant, smry, write_extra_feather, table, cerr>>
    /\ UNCHANGED concatVars

\* line 102 / 150 raises: write_table removes what it wrote of the file
ConvWriteParquetFail ==
    /\ cpc = "write_parquet"
    /\ files' = [files EXCEPT !["parquet"] = Absent]
    /\ cpc' = "failed"
    /\ cerr' = "OSError"
    /\ UNCHANGED <<variant, smry, write_extra_feather, table>>
    /\ UNCHANGED concatVars

\* smry2parquet_via_dframe.py line 151: the file is written a second time
ConvWriteParquetZstd ==
    /\ cpc = "write_parquet_zstd"
    /\ files' = [files EXCEPT !["parquet"] = Written(table)]
    /\ cpc' = "feather"
    /\ UNCHANGED <<variant, smry, write_extra_feather, table, cerr>>
    /\ UNCHANGED concatVars

ConvWriteParquetZstdFail ==
    /\ cpc = "write_parquet_zstd"
    /\ files' = [files EXCEPT !["parquet"] = Absent]
    /\ cpc' = "failed"
    /\ cerr' = "OSError"
    /\ UNCHANGED <<variant, smry, write_extra_feather, table>>
    /\ UNCHANGED concatVars

\* lines 107-111 / 155-159
ConvWriteFeather ==
    /\ cpc = "feather"
    /\ write_extra_feather
    /\ files' = [files EXCEPT !["arrow"] = Written(table)]
    /\ cpc' = "done"
    /\ UNCHANGED <<variant, smry, write_extra_feather, table, cerr>>
    /\ UNCHANGED concatVars

\* line 111 / 159 raises; nothing is done about the Parquet file
ConvWriteFeatherFail ==
    /\ cpc = "feather"
    /\ write_extra_feather
    /\ files' = [files EXCEPT !["arrow"] = Absent]
    /\ cpc' = "failed"
    /\ cerr' = "OSError"
    /\ UNCHANGED <<variant, smry, write_extra_feather, table>>
    /\ UNCHANGED concatVars

\* line 107 / 155, write_extra_feather false
ConvSkipFeather ==
    /\ cpc = "feather"
    /\ ~write_extra_feather
    /\ cpc' = "done"
    /\ UNCHANGED <<variant, smry, write_extra_feather, table, files, cerr>>
    /\ UNCHANGED concatVars

NextConv ==
    \/ LoadDirect
    \/ LoadDframe
    \/ LoadFail
    \/ ConvWriteParquet
    \/ ConvWriteParquetFail
    \/ ConvWriteParquetZstd
    \/ ConvWriteParquetZstdFail
    \/ ConvWriteFeather
    \/ ConvWriteFeatherFail
    \/ ConvSkipFeather

SpecConv == InitConv /\ [][NextConv]_vars

\* ===================================================== concatenation claims
\* concat_tables returned a table (the script may still fail in a write).
ConcatSucceeded ==
    \/ pc \in {"write_parquet", "write_feather", "done"}
    \/ pc = "failed" /\ err = "OSError" /\ concat_args # <<>>

ColumnSet(t) == Range(names(t.schema))

Column(t, name) == t.columns[IndexOfName(t.schema.fields, name)]

\* Rows of the tables before table i.
RowOffset(tables, i) == SumSeq([t \in 1..(i - 1) |-> num_rows(tables[t])])

\* C1: the columns of the concatenated table are the union of the columns of
\* the input tables, and in a column an input table lacks every output row
\* that came from that table (recognised by its DATE cell) is null.
C1_ColumnUnion ==
    ConcatSucceeded =>
        /\ ColumnSet(combined_table) =
              UNION {ColumnSet(table_list[i]) : i \in 1..Len(table_list)}
        /\ \A i \in 1..Len(table_list) :
           \A c \in ColumnSet(combined_table) \ ColumnSet(table_list[i]) :
           \A r \in 1..num_rows(combined_table) :
              Column(combined_table, "DATE")[r] \in Range(Column(table_list[i], "DATE"))
                 => Column(combined_table, c)[r] = NullCell

\* C1 witness: a concatenation in which a table with rows lacks a column
\* another table has.
C1_Witness ==
    /\ ConcatSucceeded
    /\ \E i \in 1..Len(table_list) :
          /\ num_rows(table_list[i]) >= 1
          /\ ColumnSet(combined_table) \ ColumnSet(table_list[i]) # {}

\* C2: the concatenated table has as many rows as the input tables together,
\* and the rows of table i, in their order, follow those of tables 1..i-1.
C2_RowOrder ==
    ConcatSucceeded =>
        /\ \A j \in 1..Len(combined_table.columns) :
              Len(combined_table.columns[j]) =
                 SumSeq([t \in 1..Len(table_list) |-> num_rows(table_list[t])])
        /\ \A i \in 1..Len(table_list) :
           \A c \in ColumnSet(table_list[i]) :
           \A k \in 1..num_rows(table_list[i]) :
              Column(combined_table, c)[RowOffset(table_list, i) + k]
                 = Column(table_list[i], c)[k]

\* C2 witness: a table of two rows or more and a table of another length,
\* not empty, were concatenated in that order.
C2_Witness ==
    /\ ConcatSucceeded
    /\ Len(table_list) >= 2
    /\ num_rows(table_list[1]) >= 2
    /\ num_rows(table_list[2]) >= 1
    /\ num_rows(table_list[1]) # num_rows(table_list[2])

\* Two of the tables declare different types for a column name.
TypeConflict(tables) ==
    \E i, j \in 1..Len(tables) :
    \E a \in 1..Len(tables[i].schema.fields) :
    \E b \in 1..Len(tables[j].schema.fields) :
        /\ tables[i].schema.fields[a].name = tables[j].schema.fields[b].name
        /\ tables[i].schema.fields[a].type # tables[j].schema.fields[b].type

\* The same, neither of the two types being the null type.
TypeConflictNonNull(tables) ==
    \E i, j \in 1..Len(tables) :
    \E a \in 1..Len(tables[i].schema.fields) :
    \E b \in 1..Len(tables[j].schema.fields) :
        /\ tables[i].schema.fields[a].name = tables[j].schema.fields[b].name
        /\ tables[i].schema.fields[a].type # tables[j].schema.fields[b].type
        /\ tables[i].schema.fields[a].type # "null"
        /\ tables[j].schema.fields[b].type # "null"

NothingWritten == \A f \in OutputNames : output[f] = Absent

\* C3 as stated: a concatenation of tables that declare different types for
\* a column name fails with pyarrow's schema error (ArrowInvalid) and writes
\* neither concat.parquet nor concat.arrow.
C3_TypeConflictFails_Original ==
    (concat_args # <<>> /\ TypeConflict(concat_args[1])) =>
        /\ pc = "failed"
        /\ err = "ArrowInvalid"
        /\ NothingWritten

\* C3 amended: the same for two different types neither of which is the
\* null type; a null-typed column is promoted to the other type instead.
C3_TypeConflictFails ==
    (concat_args # <<>> /\ TypeConflictNonNull(concat_args[1])) =>
        /\ pc = "failed"
        /\ err = "ArrowInvalid"
        /\ NothingWritten

\* C3 witness: a concatenation failed on a float/double conflict between
\* tables whose column names are all distinct.
C3_Witness ==
    /\ concat_args # <<>>
    /\ TypeConflictNonNull(concat_args[1])
    /\ \A i \in 1..Len(table_list) : HasDistinctFieldNames(table_list[i].schema.fields)
    /\ pc = "failed"
    /\ err = "ArrowInvalid"

\* C4 as stated: a table that went through tagging, once or twice with the
\* same index, has exactly one column named REAL, at position 1 and holding
\* the index in every row.
C4_SingleRealColumn ==
    \A i \in 1..Len(table_list) :
        /\ CountName(table_list[i].schema.fields, "REAL") = 1
        /\ table_list[i].schema.fields[2].name = "REAL"
        /\ \A k \in 1..num_rows(table_list[i]) :
              table_list[i].columns[2][k] = <<files_to_process[i].real>>

\* The first table that has a column called name.
FirstWith(tables, name) ==
    CHOOSE i \in 1..Len(tables) :
        /\ name \in ColumnSet(tables[i])
        /\ \A k \in 1..(i - 1) : name \notin ColumnSet(tables[k])

\* The union by column name of the table-level blobs, the first table that
\* has a record for a name giving it; None when no table has a blob.
BlobUnion(tables) ==
    LET has == {i \in 1..Len(tables) : tables[i].schema.metadata # <<>>}
        blob(i) == tables[i].schema.metadata[1]
        dom == UNION {DOMAIN blob(i) : i \in has}
        first(n) == CHOOSE i \in has :
                       /\ n \in DOMAIN blob(i)
                       /\ \A k \in has : n \in DOMAIN blob(k) => i <= k
    IN IF has = {} THEN <<>> ELSE <<[n \in dom |-> blob(first(n))[n]]>>

\* C9 as stated: in the concatenated table each column carries the
\* per-column blob of the first input table that has the column, and the
\* table-level blob is the first-wins union of the inputs' table-level blobs.
C9_MetadataFirstWins ==
    ConcatSucceeded =>
        /\ \A j \in 1..Len(combined_table.schema.fields) :
              LET name == combined_table.schema.fields[j].name
                  t == table_list[FirstWith(table_list, name)]
              IN combined_table.schema.fields[j].metadata =
                    t.schema.fields[IndexOfName(t.schema.fields, name)].metadata
        /\ combined_table.schema.metadata = BlobUnion(table_list)

\* The stems of the files of ./output that name a realization.
Discovered == {s \in dir : LeadingDigits(s) # <<>>}

RealOf(stem) == ParseInt(LeadingDigits(stem))

\* C10: concat_tables is called at most once, and what it receives is one
\* table per discovered file, each the table of that file tagged with the
\* realization index of the file's name, in non-decreasing order of index.
C10_ConcatAfterAllRead ==
    /\ Len(concat_args) <= 1
    /\ pc \in {"write_parquet", "write_feather", "done"} => Len(concat_args) = 1
    /\ concat_args # <<>> =>
        LET tl == concat_args[1]
        IN /\ Len(tl) = Cardinality(Discovered)
           /\ Len(files_to_process) = Len(tl)
           /\ {files_to_process[i].filename : i \in 1..Len(tl)} = Discovered
           /\ \A i \in 1..Len(tl) :
                LET stem == files_to_process[i].filename
                IN /\ tl[i].schema.fields[1].name = "DATE"
                   /\ tl[i].schema.fields[2].name = "REAL"
                   /\ \A k \in 1..num_rows(tl[i]) :
                        /\ tl[i].columns[1][k] = <<CellValue(FileId(stem), "DATE", k)>>
                        /\ tl[i].columns[2][k] = <<RealOf(stem)>>
           /\ \A i, j \in 1..Len(tl) :
                i < j => RealOf(files_to_process[i].filename)
                            <= RealOf(files_to_process[j].filename)

\* C10 witness: the script ran to its end on two files whose order by
\* realization index is not the order of their names.
C10_Witness ==
    /\ pc = "done"
    /\ Len(concat_args) = 1
    /\ \E i, j \in 1..Len(files_to_process) :
          /\ i < j
          /\ PathLess(files_to_process[j].filename, files_to_process[i].filename)
          /\ num_rows(table_list[i]) >= 1
          /\ num_rows(table_list[j]) >= 1

\* ======================================================== conversion claims
\* _load_smry_into_table returned a table (a write may still have failed).
TableProduced ==
    \/ cpc \in {"write_parquet", "write_parquet_zstd", "feather", "done"}
    \/ cpc = "failed" /\ cerr = "OSError"

NonDateNames(t) == {t.schema.fields[j].name : j \in 2..Len(t.schema.fields)}

\* C5 as stated: a table the builder produced carries the table-level blob,
\* the blob maps exactly the non-date column names, the record it holds for a
\* column is the one of the column's own blob, and DATE has no metadata.
C5_BothMetadataAgree ==
    TableProduced =>
        /\ table.schema.metadata # <<>>
        /\ DOMAIN table.schema.metadata[1] = NonDateNames(table)
        /\ \A j \in 2..Len(table.schema.fields) :
              table.schema.fields[j].metadata =
                 <<table.schema.metadata[1][table.schema.fields[j].name]>>
        /\ table.schema.fields[1].metadata = <<>>

\* C6 as stated: once a conversion or the concatenation script has failed,
\* none of its output files is on disk.
C6_AllOrNothing ==
    /\ cpc = "failed" => \A f \in ConvFileNames : files[f] = Absent
    /\ pc = "failed" => NothingWritten

\* C7: in a table the builder produced column 0 is DATE of type
\* timestamp[ms] and every other column is a 32-bit float.
C7_SchemaTypes ==
    TableProduced =>
        /\ table.schema.fields[1].name = "DATE"
        /\ table.schema.fields[1].type = "timestamp[ms]"
        /\ \A j \in 2..Len(table.schema.fields) :
              table.schema.fields[j].type = "float"

\* C7 witness: the data frame script produced a table with a vector column
\* and rows, out of float64 columns and a datetime64[ns] index.
C7_Witness ==
    /\ TableProduced
    /\ variant = "dframe"
    /\ Len(table.schema.fields) >= 2
    /\ num_rows(table) >= 1

\* A vector the table is built from differs in length from the timestamps.
LengthMismatch ==
    \E n \in Range(smry.keywords) : smry.veclen[n] # smry.ntimes

\* C8: the builder, given timestamps and a sample vector of another length,
\* raises pyarrow's validation error (ArrowInvalid) and returns no table;
\* every column of a table it returns has as many cells as there are
\* timestamps.
C8_LengthMismatchRejected ==
    /\ (cpc \notin {"idle", "load"} /\ cerr # "IOError" /\ LengthMismatch) =>
          /\ cpc = "failed"
          /\ cerr = "ArrowInvalid"
          /\ table = EmptyTable
    /\ TableProduced =>
          \A j \in 1..Len(table.columns) : Len(table.columns[j]) = smry.ntimes

\* C8 witness: the builder has rejected a summary with a vector shorter or
\* longer than its timestamps.
C8_Witness ==
    /\ cpc = "failed"
    /\ cerr = "ArrowInvalid"
    /\ LengthMismatch
    /\ smry.ntimes >= 1

\* The table of the data frame script does carry both representations.
DframeMetadataAgree ==
    (TableProduced /\ variant = "dframe") =>
        /\ table.schema.metadata # <<>>
        /\ DOMAIN table.schema.metadata[1] = NonDateNames(table)
        /\ \A j \in 2..Len(table.schema.fields) :
              table.schema.fields[j].metadata =
                 <<table.schema.metadata[1][table.schema.fields[j].name]>>

\* C11: in a table smry2parquet.py built, every name of the enumeration is
\* the name of exactly one column, however often the enumeration lists it,
\* and the column of a name holds the reader's vector of that name, stored
\* as 32-bit floats, and carries the metadata record computed for that name.
C11_ColumnsAligned ==
    (TableProduced /\ variant = "direct") =>
        /\ NonDateNames(table) = Range(smry.keywords)
        /\ \A n \in Range(smry.keywords) : CountName(table.schema.fields, n) = 1
        /\ Len(table.columns) = Len(table.schema.fields)
        /\ \A j \in 2..Len(table.schema.fields) :
              LET n == table.schema.fields[j].name
              IN /\ table.columns[j] =
                       [k \in 1..smry.veclen[n] |-> <<Float32(SampleValue(n, k))>>]
                 /\ table.schema.fields[j].metadata = <<col_meta(smry.node[n])>>

\* C11 witness: smry2parquet.py built a table with rows from an enumeration
\* that lists one name twice and another name besides, the two names with
\* different metadata.
C11_Witness ==
    /\ TableProduced
    /\ variant = "direct"
    /\ Len(smry.keywords) > Cardinality(Range(smry.keywords))
    /\ Cardinality(Range(smry.keywords)) >= 2
    /\ smry.node["FOPR"] # smry.node["FGPR"]
    /\ num_rows(table) >= 1

====
